---- MODULE Spec2Model ----
(***************************************************************************)
(* A model of scipy/stats/_binomtest.py: the exact binomial test           *)
(* (binomtest), the binary search it uses for the two-sided p-value        *)
(* (_binary_search_for_binom_tst) and the confidence intervals of the      *)
(* result (BinomTestResult.proportion_ci: Clopper-Pearson, Wilson, Wilson  *)
(* with continuity correction).                                            *)
(*                                                                         *)
(* Numbers.  The hypothesised proportion is a rational p = a/b, so every   *)
(* binomial probability is an integer over b^n:                            *)
(*     PMF(x; n, a/b) = C(n,x) * a^x * (b-a)^(n-x) / b^n.                  *)
(* Probabilities are kept as these integer numerators and the arithmetic   *)
(* is exact: the model is the program in real arithmetic, without the      *)
(* rounding of IEEE doubles.  The threshold d*rerr of the two-sided test   *)
(* is not an integer over b^n; it is kept as a fixed-point number          *)
(* w + r/RerrDen (a record [w, r] with 0 <= r < RerrDen).                  *)
(*                                                                         *)
(* Behaviours.  The module keeps no state of its own: binomtest is a pure  *)
(* function of its arguments and proportion_ci one of the result's fields  *)
(* and its arguments.  A behaviour of Spec is one use of the module: a     *)
(* call of binomtest (repeated while it raises) and then one call of       *)
(* proportion_ci on the result; further calls would revisit the same       *)
(* states.  SearchSpec runs _binary_search_for_binom_tst alone, one loop   *)
(* iteration per step, on an arbitrary function.                           *)
(***************************************************************************)
EXTENDS Integers, Sequences, FiniteSets, TLC

\* ------------------------------------------------------------- bounds
\* n ranges over 1..MaxN, k over 0..MaxN.
MaxN == 4
\* p ranges over the fractions a/b with 1 <= b <= MaxPDen.
MaxPDen == 3
\* The root finder works on the grid 0/Grid, 1/Grid, ..., Grid/Grid of [0,1];
\* 1/Grid is its tolerance.
Grid == 8
\* The stand-alone search: the range lo..hi lies within 1..MaxLen.
MaxLen == 4

\* rerr = 1 + 1e-7 = (RerrDen + 1) / RerrDen
RerrDen == 10000000

VARIABLES
    args,     \* the arguments of the last binomtest call that returned
    result,   \* the BinomTestResult it returned (NoResult before any)
    search,   \* the binary search that call made (NoSearch if none)
    ciargs,   \* the arguments of the last proportion_ci call
    ci,       \* the ConfidenceInterval the last proportion_ci call returned
    err,      \* the exception the last call raised (NoErr if it returned)
    calls,    \* the numerical primitives the last call invoked, in order
    solver,   \* what the root finder did in each of its calls, in order
    bs        \* the stand-alone binary search: its arguments and loop state

vars == <<args, result, search, ciargs, ci, err, calls, solver, bs>>

NoResult == [kind |-> "none"]
NoSearch == [kind |-> "none"]
NoCI == [kind |-> "none"]
NoErr == [kind |-> "none"]
NoArgs == [kind |-> "none"]
BsIdle == [kind |-> "idle"]

\* ------------------------------------------------- exact arithmetic
RECURSIVE Pow(_, _)
Pow(x, e) == IF e = 0 THEN 1 ELSE x * Pow(x, e - 1)

RECURSIVE Choose(_, _)
Choose(n, x) ==
    IF x < 0 \/ x > n THEN 0
    ELSE IF x = 0 \/ x = n THEN 1
    ELSE Choose(n - 1, x - 1) + Choose(n - 1, x)

RECURSIVE SumTo(_, _, _)
\* f[lo] + ... + f[hi]
SumTo(f, lo, hi) == IF lo > hi THEN 0 ELSE f[hi] + SumTo(f, lo, hi - 1)

Min(x, y) == IF x <= y THEN x ELSE y

\* np.floor(a*n/b) and np.ceil(a*n/b) for b > 0
Floor(num, den) == num \div den
Ceil(num, den) == -((-num) \div den)

\* Fixed-point numbers w + r/RerrDen.
Fx(w) == [w |-> w, r |-> 0]
FxNeg(x) == IF x.r = 0 THEN [w |-> -x.w, r |-> 0]
            ELSE [w |-> -x.w - 1, r |-> RerrDen - x.r]
FxLt(x, y) == x.w < y.w \/ (x.w = y.w /\ x.r < y.r)
FxLe(x, y) == x.w < y.w \/ (x.w = y.w /\ x.r <= y.r)
\* v * rerr = v + v/RerrDen, for an integer v >= 0
MulRerr(v) == [w |-> v + (v \div RerrDen), r |-> v % RerrDen]

\* ------------------------------------------- the binomial distribution
\* binom.pmf(x, n, a/b) * b^n
Pmf(x, n, a, b) == Choose(n, x) * Pow(a, x) * Pow(b - a, n - x)
\* binom.cdf(x, n, a/b) * b^n = P(X <= x) * b^n
Cdf(x, n, a, b) == SumTo([i \in 0..n |-> Pmf(i, n, a, b)], 0, Min(x, n))
\* binom.sf(x, n, a/b) * b^n = P(X > x) * b^n
Sf(x, n, a, b) ==
    SumTo([i \in 0..n |-> Pmf(i, n, a, b)], (IF x < 0 THEN 0 ELSE x + 1), n)

\* ------------------------------------- _binary_search_for_binom_tst
\* The loop state: lo, hi and, once the function has returned, ret.
BsStart(lo, hi) == [lo |-> lo, hi |-> hi, done |-> FALSE, ret |-> 0]

\* BinarySearchStep without the adjustment after the loop: lo is returned
\* whatever a(lo) is.
BinarySearchStep_NoFinalAdjust(a, d, s) ==
    IF s.lo < s.hi
    THEN LET mid == s.lo + ((s.hi - s.lo) \div 2)
             midval == a[mid]
         IN  IF FxLt(midval, d) THEN [s EXCEPT !.lo = mid + 1]
             ELSE IF FxLt(d, midval) THEN [s EXCEPT !.hi = mid - 1]
             ELSE [s EXCEPT !.done = TRUE, !.ret = mid]
    ELSE [s EXCEPT !.done = TRUE, !.ret = s.lo]

\* BinarySearchStep with `lo = mid` for `lo = mid+1`.
BinarySearchStep_LoStuck(a, d, s) ==
    IF s.lo < s.hi
    THEN LET mid == s.lo + ((s.hi - s.lo) \div 2)
             midval == a[mid]
         IN  IF FxLt(midval, d) THEN [s EXCEPT !.lo = mid]
             ELSE IF FxLt(d, midval) THEN [s EXCEPT !.hi = mid - 1]
             ELSE [s EXCEPT !.done = TRUE, !.ret = mid]
    ELSE IF FxLe(a[s.lo], d)
         THEN [s EXCEPT !.done = TRUE, !.ret = s.lo]
         ELSE [s EXCEPT !.done = TRUE, !.ret = s.lo - 1]

\* One pass through `while lo < hi`, or the code after the loop.
BinarySearchStep(a, d, s) ==
    IF s.lo < s.hi
    THEN LET mid == s.lo + ((s.hi - s.lo) \div 2)
             midval == a[mid]
         IN  IF FxLt(midval, d) THEN [s EXCEPT !.lo = mid + 1]
             ELSE IF FxLt(d, midval) THEN [s EXCEPT !.hi = mid - 1]
             ELSE [s EXCEPT !.done = TRUE, !.ret = mid]
    ELSE IF FxLe(a[s.lo], d)
         THEN [s EXCEPT !.done = TRUE, !.ret = s.lo]
         ELSE [s EXCEPT !.done = TRUE, !.ret = s.lo - 1]

RECURSIVE BinarySearchRun(_, _, _)
BinarySearchRun(a, d, s) ==
    IF s.done THEN s.ret ELSE BinarySearchRun(a, d, BinarySearchStep(a, d, s))

binary_search_for_binom_tst(a, d, lo, hi) == BinarySearchRun(a, d, BsStart(lo, hi))

\* a is non-decreasing over lo..hi
NonDecreasing(a, lo, hi) ==
    \A i \in lo..hi : \A j \in lo..hi : i <= j => FxLe(a[i], a[j])

\* ------------------------------------------------------- binomtest
Alternatives == {"two-sided", "less", "greater"}

\* TwoSidedSearch with the search for k < p*n started at 0, not at ceil(p*n).
TwoSidedSearch_DescFromZero(k, n, a, b) ==
    LET d == Pmf(k, n, a, b)
    IN  IF k * b < a * n
        THEN [kind |-> "desc",
              a |-> [x \in 0..n |-> FxNeg(Fx(Pmf(x, n, a, b)))],
              d |-> FxNeg(MulRerr(d)),
              lo |-> 0, hi |-> n]
        ELSE [kind |-> "asc",
              a |-> [x \in 0..n |-> Fx(Pmf(x, n, a, b))],
              d |-> MulRerr(d),
              lo |-> 0, hi |-> Floor(a * n, b) + 1]

\* The search of the two-sided branch: the function, the target, the range.
\* k < p*n: lambda x1: -binom.pmf(x1, n, p), -d*rerr, np.ceil(p*n), n
\* k > p*n: lambda x1: binom.pmf(x1, n, p), d*rerr, 0, np.floor(p*n) + 1
TwoSidedSearch(k, n, a, b) ==
    LET d == Pmf(k, n, a, b)
    IN  IF k * b < a * n
        THEN [kind |-> "desc",
              a |-> [x \in 0..n |-> FxNeg(Fx(Pmf(x, n, a, b)))],
              d |-> FxNeg(MulRerr(d)),
              lo |-> Ceil(a * n, b), hi |-> n]
        ELSE [kind |-> "asc",
              a |-> [x \in 0..n |-> Fx(Pmf(x, n, a, b))],
              d |-> MulRerr(d),
              lo |-> 0, hi |-> Floor(a * n, b) + 1]

\* TwoSidedPvalue with `y = idx` for `y = idx + 1` in the branch k > p*n.
TwoSidedPvalue_YOffByOne(k, n, a, b) ==
    LET s == TwoSidedSearch(k, n, a, b)
        idx == binary_search_for_binom_tst(s.a, s.d, s.lo, s.hi)
        pval == IF k * b = a * n THEN Pow(b, n)
                ELSE IF k * b < a * n
                THEN LET y == n - idx
                     IN  Cdf(k, n, a, b) + Sf(n - y, n, a, b)
                ELSE LET y == idx
                     IN  Cdf(y - 1, n, a, b) + Sf(k - 1, n, a, b)
    IN  Min(Pow(b, n), pval)

\* The two-sided p-value (lines 309-324), as a numerator over b^n.
TwoSidedPvalue(k, n, a, b) ==
    LET s == TwoSidedSearch(k, n, a, b)
        idx == binary_search_for_binom_tst(s.a, s.d, s.lo, s.hi)
        pval == IF k * b = a * n THEN Pow(b, n)
                ELSE IF k * b < a * n
                THEN LET y == n - idx
                     IN  Cdf(k, n, a, b) + Sf(n - y, n, a, b)
                ELSE LET y == idx + 1
                     IN  Cdf(y - 1, n, a, b) + Sf(k - 1, n, a, b)
    IN  Min(Pow(b, n), pval)

\* The p-value of each alternative (lines 303-324), as a numerator over b^n.
Pvalue(k, n, a, b, alternative) ==
    IF alternative = "less" THEN Cdf(k, n, a, b)
    ELSE IF alternative = "greater" THEN Sf(k - 1, n, a, b)
    ELSE TwoSidedPvalue(k, n, a, b)

\* binomtest(k, n, p = a/b, alternative): the arguments are checked, the
\* p-value is computed and a BinomTestResult is returned.
Binomtest(k, n, a, b, alternative) ==
    IF k > n THEN
        /\ err' = [kind |-> "ValueError", msg |-> "k must not be greater than n."]
        /\ UNCHANGED <<args, result, search>>
    ELSE IF ~(0 <= a /\ a <= b) THEN
        /\ err' = [kind |-> "ValueError", msg |-> "p must be in range [0,1]"]
        /\ UNCHANGED <<args, result, search>>
    ELSE IF alternative \notin Alternatives THEN
        /\ err' = [kind |-> "ValueError", msg |-> "alternative not recognized"]
        /\ UNCHANGED <<args, result, search>>
    ELSE
        /\ err' = NoErr
        /\ args' = [kind |-> "args", k |-> k, n |-> n, a |-> a, b |-> b,
                    alternative |-> alternative]
        /\ search' = IF alternative = "two-sided" /\ k * b # a * n
                     THEN TwoSidedSearch(k, n, a, b) ELSE NoSearch
        /\ result' = [kind |-> "BinomTestResult", k |-> k, n |-> n,
                      alternative |-> alternative,
                      proportion_estimate |-> [num |-> k, den |-> n],
                      pvalue |-> [num |-> Pvalue(k, n, a, b, alternative),
                                  den |-> Pow(b, n)]]

\* ------------------------------------------------ values of the bounds
\* A bound of an interval is a double: NaN, or the real number
\* (a + b*sqrt(r)) / d with integers a, b, r >= 0, d > 0 (the Wilson bounds
\* are of this form; a rational has b = 0).
Val(a, b, r, d) == [kind |-> "fin", a |-> a, b |-> b, r |-> r, d |-> d]
Rat(num, den) == Val(num, 0, 0, den)
NaN == [kind |-> "nan", a |-> 0, b |-> 0, r |-> 0, d |-> 1]
Zero == Rat(0, 1)
One == Rat(1, 1)

Sgn(x) == IF x > 0 THEN 1 ELSE IF x < 0 THEN -1 ELSE 0

\* the sign of a + b*sqrt(r)
SurdSign(a, b, r) ==
    LET sa == Sgn(a)
        sb == IF r = 0 THEN 0 ELSE Sgn(b)
    IN  IF sb = 0 THEN sa
        ELSE IF sa = 0 \/ sa = sb THEN sb
        ELSE IF a * a > b * b * r THEN sa
        ELSE IF a * a < b * b * r THEN sb
        ELSE 0

\* the sign of c + b1*sqrt(r1) + b2*sqrt(r2)
SurdSign3(c, b1, r1, b2, r2) ==
    LET s1 == IF r1 = 0 THEN 0 ELSE Sgn(b1)
        s2 == IF r2 = 0 THEN 0 ELSE Sgn(b2)
        \* the sign of S = b1*sqrt(r1) + b2*sqrt(r2)
        sS == IF s1 = 0 THEN s2
              ELSE IF s2 = 0 \/ s1 = s2 THEN s1
              ELSE IF b1 * b1 * r1 > b2 * b2 * r2 THEN s1
              ELSE IF b1 * b1 * r1 < b2 * b2 * r2 THEN s2
              ELSE 0
        sc == Sgn(c)
        \* the sign of c^2 - S^2
        sq == SurdSign(c * c - b1 * b1 * r1 - b2 * b2 * r2, -2 * b1 * b2, r1 * r2)
    IN  IF sS = 0 THEN sc
        ELSE IF sc = 0 \/ sc = sS THEN sS
        ELSE IF sq > 0 THEN sc
        ELSE IF sq < 0 THEN sS
        ELSE 0

\* x <= y as doubles compare: False when either is NaN
Leq(x, y) ==
    /\ x.kind = "fin"
    /\ y.kind = "fin"
    /\ IF x.d = y.d
       THEN SurdSign3(y.a - x.a, y.b, y.r, -x.b, x.r) >= 0
       ELSE SurdSign3(y.a * x.d - x.a * y.d, y.b * x.d, y.r, -x.b * y.d, x.r) >= 0

\* x == y as doubles compare
Same(x, y) == Leq(x, y) /\ Leq(y, x)

\* ------------------------------------------------- confidence levels
\* A confidence level is a rational [num, den], den > 0.
ConfLevels ==
    {[num |-> c, den |-> 1000] : c \in {0, 159, 500, 841, 977, 1000}}
BadConfLevels == {[num |-> -1, den |-> 1000], [num |-> 1001, den |-> 1000]}

\* scipy.special.ndtri(q), the quantile of the standard normal distribution,
\* for q = num/den: -inf at 0, +inf at 1, and in between the quantile rounded
\* to the nearest integer z (Phi(0.5) = 0.6915, Phi(1.5) = 0.9332,
\* Phi(2.5) = 0.9938).  [inf |-> -1 | 0 | 1, z |-> the finite value]
Ndtri(q) ==
    LET Below(t) == q.num * 10000 < t * q.den
    IN  IF q.num = 0 THEN [inf |-> -1, z |-> 0]
        ELSE IF q.num = q.den THEN [inf |-> 1, z |-> 0]
        ELSE IF Below(62) THEN [inf |-> 0, z |-> -3]
        ELSE IF Below(668) THEN [inf |-> 0, z |-> -2]
        ELSE IF Below(3085) THEN [inf |-> 0, z |-> -1]
        ELSE IF Below(6915) THEN [inf |-> 0, z |-> 0]
        ELSE IF Below(9332) THEN [inf |-> 0, z |-> 1]
        ELSE IF Below(9938) THEN [inf |-> 0, z |-> 2]
        ELSE [inf |-> 0, z |-> 3]

\* ------------------------------------------------------ the root finder
\* What a call of the solver may do: return a root, or fail.
SolverOutcomes == {"converged", "RuntimeError", "ValueError"}

\* scipy.optimize.brentq(f, 0, 1) on the grid: f is the function g |-> the
\* sign of f(g/Grid).  A root at an end of the bracket is returned at once;
\* end values of one sign are a ValueError; otherwise the root is returned
\* to within 1/Grid (rounded down to the grid), unless the solver fails.
Brentq(f, outcome) ==
    IF f[0] = 0 THEN [kind |-> "root", root |-> 0]
    ELSE IF f[Grid] = 0 THEN [kind |-> "root", root |-> Grid]
    ELSE IF f[0] = f[Grid] THEN [kind |-> "ValueError", root |-> 0]
    ELSE IF outcome # "converged" THEN [kind |-> outcome, root |-> 0]
    ELSE LET Crossing(g) == f[g] = 0 \/ f[g] * f[g + 1] < 0
         IN  [kind |-> "root",
              root |-> CHOOSE g \in 0..(Grid - 1) :
                          /\ Crossing(g)
                          /\ \A h \in 0..(g - 1) : ~Crossing(h)]

\* _findp with the solver's RuntimeError swallowed: nan is returned.
FindP_SwallowsNonConvergence(func, outcome) ==
    LET r == Brentq(func, outcome)
    IN  IF r.kind = "RuntimeError"
        THEN [kind |-> "return", outcome |-> r.kind, p |-> NaN]
        ELSE IF r.kind = "ValueError"
        THEN [kind |-> "raise", outcome |-> r.kind,
              err |-> [kind |-> "ValueError",
                       msg |-> "brentq raised a ValueError; report this to the SciPy developers",
                       cause |-> "brentq ValueError"]]
        ELSE [kind |-> "return", outcome |-> r.kind, p |-> Rat(r.root, Grid)]

\* _findp(func): the root as a value, or the exception raised.
FindP(func, outcome) ==
    LET r == Brentq(func, outcome)
    IN  IF r.kind = "RuntimeError"
        THEN [kind |-> "raise", outcome |-> r.kind,
              err |-> [kind |-> "RuntimeError",
                       msg |-> "numerical solver failed to converge when computing the confidence limits",
                       cause |-> "None"]]
        ELSE IF r.kind = "ValueError"
        THEN [kind |-> "raise", outcome |-> r.kind,
              err |-> [kind |-> "ValueError",
                       msg |-> "brentq raised a ValueError; report this to the SciPy developers",
                       cause |-> "brentq ValueError"]]
        ELSE [kind |-> "return", outcome |-> r.kind, p |-> Rat(r.root, Grid)]

\* lambda p: binom.sf(k-1, n, p) - alpha, as its sign on the grid
SfMinusAlpha(k, n, alpha) ==
    [g \in 0..Grid |->
        Sgn(Sf(k - 1, n, g, Grid) * alpha.den - alpha.num * Pow(Grid, n))]
\* lambda p: binom.cdf(k, n, p) - alpha, as its sign on the grid
CdfMinusAlpha(k, n, alpha) ==
    [g \in 0..Grid |->
        Sgn(Cdf(k, n, g, Grid) * alpha.den - alpha.num * Pow(Grid, n))]

\* ExactAlpha with the two-sided alpha not halved.
ExactAlpha_NotHalved(conf, alternative) ==
    [num |-> conf.den - conf.num, den |-> conf.den]

\* alpha of _binom_exact_conf_int: (1 - confidence_level) / 2 for the
\* two-sided alternative, 1 - confidence_level for the one-sided ones
ExactAlpha(conf, alternative) ==
    IF alternative = "two-sided"
    THEN [num |-> conf.den - conf.num, den |-> 2 * conf.den]
    ELSE [num |-> conf.den - conf.num, den |-> conf.den]

\* ExactLow with the 'less' branch solving for plow as the 'greater' branch
\* does.
ExactLow_IgnoresAlternative(k, n, conf, alternative, outcome) ==
    IF k = 0
    THEN [kind |-> "return", p |-> Zero, called |-> FALSE]
    ELSE [called |-> TRUE] @@
         FindP(SfMinusAlpha(k, n, ExactAlpha(conf, alternative)), outcome)

\* plow of _binom_exact_conf_int, with whether _findp was called for it
ExactLow(k, n, conf, alternative, outcome) ==
    IF alternative = "less" \/ k = 0
    THEN [kind |-> "return", p |-> Zero, called |-> FALSE]
    ELSE [called |-> TRUE] @@
         FindP(SfMinusAlpha(k, n, ExactAlpha(conf, alternative)), outcome)

\* phigh of _binom_exact_conf_int, with whether _findp was called for it
ExactHigh(k, n, conf, alternative, outcome) ==
    IF alternative = "greater" \/ k = n
    THEN [kind |-> "return", p |-> One, called |-> FALSE]
    ELSE [called |-> TRUE] @@
         FindP(CdfMinusAlpha(k, n, ExactAlpha(conf, alternative)), outcome)

\* _binom_exact_conf_int(k, n, confidence_level, alternative): plow is
\* computed first; an exception of _findp ends the call.
binom_exact_conf_int(k, n, conf, alternative, olow, ohigh) ==
    LET lo == ExactLow(k, n, conf, alternative, olow)
        hi == ExactHigh(k, n, conf, alternative, ohigh)
        clo == IF lo.called THEN <<"findp:low">> ELSE <<>>
        chi == IF hi.called THEN <<"findp:high">> ELSE <<>>
        slo == IF lo.called THEN <<lo.outcome>> ELSE <<>>
        shi == IF hi.called THEN <<hi.outcome>> ELSE <<>>
    IN  IF lo.kind = "raise"
        THEN [kind |-> "raise", err |-> lo.err, calls |-> clo, solver |-> slo]
        ELSE IF hi.kind = "raise"
        THEN [kind |-> "raise", err |-> hi.err, calls |-> clo \o chi,
              solver |-> slo \o shi]
        ELSE [kind |-> "return", low |-> lo.p, high |-> hi.p,
              calls |-> clo \o chi, solver |-> slo \o shi]

\* ------------------------------------------------ _binom_wilson_conf_int
\* With p = k/n, q = (n-k)/n and a finite z:
\*   denom  = 2*(n + z^2)
\*   center = (2*k + z^2) / denom
\*   delta  = z * sqrt(n*(4*k*(n-k) + n*z^2)) / (n*denom)
\*   dlo    = (n + z * sqrt(n*(n*z^2 - 2*n - 1 + 4*k*(n-k+1)))) / (n*denom)
\*   dhi    = (n + z * sqrt(n*(n*z^2 + 2*n - 1 + 4*k*(n-k-1)))) / (n*denom)
\* With z = +-inf: denom = inf, center = (2*n*p + inf)/inf = nan, and
\* delta, dlo, dhi are inf/inf = nan, so a computed bound is nan.
WilsonLow(k, n, z, correction) ==
    IF z.inf # 0 THEN NaN
    ELSE LET zz == z.z * z.z
             d == 2 * n * (n + zz)
         IN  IF correction
             THEN Val(n * (2 * k + zz) - n, -z.z,
                      n * (n * zz - 2 * n - 1 + 4 * k * (n - k + 1)), d)
             ELSE Val(n * (2 * k + zz), -z.z,
                      n * (4 * k * (n - k) + n * zz), d)

WilsonHigh(k, n, z, correction) ==
    IF z.inf # 0 THEN NaN
    ELSE LET zz == z.z * z.z
             d == 2 * n * (n + zz)
         IN  IF correction
             THEN Val(n * (2 * k + zz) + n, z.z,
                      n * (n * zz + 2 * n - 1 + 4 * k * (n - k - 1)), d)
             ELSE Val(n * (2 * k + zz), z.z,
                      n * (4 * k * (n - k) + n * zz), d)

\* _binom_wilson_conf_int(k, n, confidence_level, alternative, correction)
binom_wilson_conf_int(k, n, conf, alternative, correction) ==
    LET z == IF alternative = "two-sided"
             THEN Ndtri([num |-> conf.den + conf.num, den |-> 2 * conf.den])
             ELSE Ndtri(conf)
        zero == alternative = "less" \/ k = 0
        one == alternative = "greater" \/ k = n
    IN  [kind |-> "return",
         low |-> IF zero THEN Zero ELSE WilsonLow(k, n, z, correction),
         high |-> IF one THEN One ELSE WilsonHigh(k, n, z, correction),
         solver |-> <<>>,
         calls |-> <<"ndtri">>
                   \o (IF zero THEN <<>> ELSE <<"wilson:low">>)
                   \o (IF one THEN <<>> ELSE <<"wilson:high">>)]

\* ------------------------------------------ BinomTestResult.proportion_ci
Methods == {"exact", "wilson", "wilsoncc"}

\* proportion_ci without the check of method: an unknown method takes the
\* else branch, as 'wilson' does.
proportion_ci_NoMethodCheck(r, conf, method, olow, ohigh) ==
    IF ~(0 <= conf.num /\ conf.num <= conf.den)
    THEN [kind |-> "raise", calls |-> <<>>, solver |-> <<>>,
          err |-> [kind |-> "ValueError", cause |-> "None",
                   msg |-> "confidence_level must be in the interval [0, 1]."]]
    ELSE IF method = "exact"
    THEN binom_exact_conf_int(r.k, r.n, conf, r.alternative, olow, ohigh)
    ELSE binom_wilson_conf_int(r.k, r.n, conf, r.alternative, method = "wilsoncc")

\* proportion_ci(confidence_level, method) of the result r; olow and ohigh
\* are what the solver does when it is called for the low and the high bound.
proportion_ci(r, conf, method, olow, ohigh) ==
    IF method \notin Methods
    THEN [kind |-> "raise", calls |-> <<>>, solver |-> <<>>,
          err |-> [kind |-> "ValueError", cause |-> "None",
                   msg |-> "method must be one of 'exact', 'wilson' or 'wilsoncc'."]]
    ELSE IF ~(0 <= conf.num /\ conf.num <= conf.den)
    THEN [kind |-> "raise", calls |-> <<>>, solver |-> <<>>,
          err |-> [kind |-> "ValueError", cause |-> "None",
                   msg |-> "confidence_level must be in the interval [0, 1]."]]
    ELSE IF method = "exact"
    THEN binom_exact_conf_int(r.k, r.n, conf, r.alternative, olow, ohigh)
    ELSE binom_wilson_conf_int(r.k, r.n, conf, r.alternative, method = "wilsoncc")

BinomtestCall ==
    \E n \in 1..MaxN : \E k \in 0..MaxN : \E b \in 1..MaxPDen : \E a \in 0..(b + 1) :
    \E alternative \in Alternatives \cup {"bogus"} :
        /\ result = NoResult
        /\ Binomtest(k, n, a, b, alternative)
        /\ ci' = NoCI
        /\ calls' = <<>>
        /\ UNCHANGED <<ciargs, solver, bs>>

ProportionCiCall ==
    \E conf \in ConfLevels \cup BadConfLevels : \E method \in Methods \cup {"bogus"} :
    \E olow \in (IF method = "exact" THEN SolverOutcomes ELSE {"converged"}) :
    \E ohigh \in (IF method = "exact" THEN SolverOutcomes ELSE {"converged"}) :
        /\ result # NoResult
        /\ ciargs = NoArgs
        /\ LET c == proportion_ci(result, conf, method, olow, ohigh)
           IN  /\ calls' = c.calls
               /\ solver' = c.solver
               /\ IF c.kind = "raise"
                  THEN err' = c.err /\ ci' = NoCI
                  ELSE /\ err' = NoErr
                       /\ ci' = [kind |-> "ConfidenceInterval", low |-> c.low,
                                 high |-> c.high]
        /\ ciargs' = [kind |-> "args", confidence_level |-> conf, method |-> method]
        /\ UNCHANGED <<args, result, search, bs>>

Init ==
    /\ args = NoArgs
    /\ result = NoResult
    /\ search = NoSearch
    /\ ciargs = NoArgs
    /\ ci = NoCI
    /\ err = NoErr
    /\ calls = <<>>
    /\ solver = <<>>
    /\ bs = BsIdle

Next == BinomtestCall \/ ProportionCiCall

Spec == Init /\ [][Next]_vars

\* ------------------------------------------- the search, step by step
\* _binary_search_for_binom_tst(a, d, lo, hi) on any function a over the
\* indices 0..MaxLen+1, any target d and any range lo..hi within 1..MaxLen.
\* The search only compares values of a with d, so three values are all
\* there is to a value: one below, one equal to and one above the target.
SearchValues == {0, 1, 2}

SearchInit ==
    /\ args = NoArgs
    /\ result = NoResult
    /\ search = NoSearch
    /\ ciargs = NoArgs
    /\ ci = NoCI
    /\ err = NoErr
    /\ calls = <<>>
    /\ solver = <<>>
    /\ \E a \in [0..(MaxLen + 1) -> SearchValues] : \E d \in SearchValues :
       \E lo \in 1..MaxLen : \E hi \in lo..MaxLen :
           bs = [kind |-> "search", a |-> [x \in 0..(MaxLen + 1) |-> Fx(a[x])],
                 d |-> Fx(d), lo |-> lo, hi |-> hi, s |-> BsStart(lo, hi)]

SearchStep ==
    /\ ~bs.s.done
    /\ bs' = [bs EXCEPT !.s = BinarySearchStep(bs.a, bs.d, bs.s)]
    /\ UNCHANGED <<args, result, search, ciargs, ci, err, calls, solver>>

SearchNext == SearchStep

SearchSpec == SearchInit /\ [][SearchNext]_vars

\* The loop is sequential code: a step that can be taken is taken.
FairSearchSpec == SearchSpec /\ WF_vars(SearchNext)

\* ------------------------------------------------------------ claims
HasResult == result.kind = "BinomTestResult"
HasCI == ci.kind = "ConfidenceInterval"
Called(c) == \E i \in 1..Len(calls) : calls[i] = c
ConfIs(num) == ciargs.kind = "args" /\ ciargs.confidence_level.num = num
\* the solver's tolerance, and x within it of y
Tol == Rat(1, Grid)
Plus(x, y) == Rat(x.a * y.d + y.a * x.d, x.d * y.d)
Estimate == Rat(result.k, result.n)

\* The probability of all outcomes at most as likely as the observed one:
\* the sum of PMF(x) over the x in 0..n with PMF(x) <= PMF(k) * rerr.
AsExtreme(k, n, a, b) ==
    SumTo([x \in 0..n |->
              IF FxLe(Fx(Pmf(x, n, a, b)), MulRerr(Pmf(k, n, a, b)))
              THEN Pmf(x, n, a, b) ELSE 0], 0, n)

\* C1: the two-sided p-value is min(1, S), S the sum of PMF(x; n, p) over the
\* outcomes x in 0..n whose PMF is at most d*rerr, d = PMF(k; n, p).
C1_TwoSidedIsSumOfAsExtreme ==
    (HasResult /\ result.alternative = "two-sided") =>
        result.pvalue.num =
            Min(result.pvalue.den, AsExtreme(args.k, args.n, args.a, args.b))

\* C1's case: k right of the mean, the ascending search was made, and both
\* tails contribute to a p-value below 1.
C1_Witness ==
    /\ HasResult
    /\ search.kind = "asc"
    /\ result.pvalue.num < result.pvalue.den
    /\ result.pvalue.num > Sf(args.k - 1, args.n, args.a, args.b)

C3_TwoSidedMirrorSymmetry ==
    (HasResult /\ result.alternative = "two-sided") =>
        result.pvalue.num =
            Pvalue(args.n - args.k, args.n, args.b - args.a, args.b, "two-sided")

\* C3's case: k left of the mean (the search on the negated PMF), for a p
\* other than 1/2, with both tails contributing to a p-value below 1.
C3_Witness ==
    /\ HasResult
    /\ search.kind = "desc"
    /\ 2 * args.a # args.b
    /\ result.pvalue.num < result.pvalue.den
    /\ result.pvalue.num > Cdf(args.k, args.n, args.a, args.b)

\* C4 as stated: every interval proportion_ci returns has
\* 0 <= low <= high <= 1.
C4_BoundsOrderedInUnitInterval ==
    HasCI => /\ Leq(Zero, ci.low)
             /\ Leq(ci.low, ci.high)
             /\ Leq(ci.high, One)

\* C5: the interval of a result with alternative 'less' has low = 0.0 and
\* that of one with alternative 'greater' has high = 1.0, and neither the
\* root finder nor the Wilson formula was used for that bound.
C5_OneSidedBoundIsTrivial ==
    HasCI =>
        /\ result.alternative = "less" =>
              ci.low = Zero /\ ~Called("findp:low") /\ ~Called("wilson:low")
        /\ result.alternative = "greater" =>
              ci.high = One /\ ~Called("findp:high") /\ ~Called("wilson:high")

\* C5's case: an interval of a 'less' result whose high bound was computed.
C5_Witness ==
    /\ HasCI
    /\ result.alternative = "less"
    /\ Called("findp:high") \/ Called("wilson:high")

\* C6 as stated: with confidence_level = 0 the exact interval is the point
\* estimate, low = high = k/n, to within the solver's tolerance.
C6_ExactCollapsesAtLevelZero ==
    (HasCI /\ ciargs.method = "exact" /\ ConfIs(0)) =>
        /\ Leq(ci.low, Plus(Estimate, Tol)) /\ Leq(Estimate, Plus(ci.low, Tol))
        /\ Leq(ci.high, Plus(Estimate, Tol)) /\ Leq(Estimate, Plus(ci.high, Tol))

\* C6 amended: with confidence_level = 0 the exact interval of a two-sided
\* result contains the point estimate, low <= k/n <= high to within the
\* solver's tolerance; that of a 'less' result is [0, 0] ([0, 1] if k = n) and
\* that of a 'greater' result is [1, 1] ([0, 1] if k = 0).
C6_ExactAtLevelZero ==
    (HasCI /\ ciargs.method = "exact" /\ ConfIs(0)) =>
        /\ result.alternative = "two-sided" =>
              /\ Leq(ci.low, Plus(Estimate, Tol))
              /\ Leq(Estimate, Plus(ci.high, Tol))
        /\ result.alternative = "less" =>
              /\ Same(ci.low, Zero)
              /\ Same(ci.high, IF result.k = result.n THEN One ELSE Zero)
        /\ result.alternative = "greater" =>
              /\ Same(ci.low, IF result.k = 0 THEN Zero ELSE One)
              /\ Same(ci.high, One)

\* C6's case: a two-sided result with 0 < k < n, both bounds found by the
\* solver at confidence_level = 0.
C6_Witness ==
    /\ HasCI
    /\ ciargs.method = "exact"
    /\ ConfIs(0)
    /\ result.alternative = "two-sided"
    /\ calls = <<"findp:low", "findp:high">>

\* C7: a proportion_ci call with an unknown method or a confidence_level
\* outside [0, 1] raises the invalid-argument ValueError, has called no
\* numerical primitive, returns no interval and leaves the result as it was.
C7_InvalidArgumentsRaiseFirst ==
    [][(/\ ciargs' # ciargs
        /\ \/ ciargs'.method \notin Methods
           \/ ciargs'.confidence_level.num < 0
           \/ ciargs'.confidence_level.num > ciargs'.confidence_level.den)
       => /\ err'.kind = "ValueError"
          /\ err'.msg \in {"method must be one of 'exact', 'wilson' or 'wilsoncc'.",
                           "confidence_level must be in the interval [0, 1]."}
          /\ calls' = <<>>
          /\ solver' = <<>>
          /\ ci' = NoCI
          /\ result' = result]_vars

\* C7's case: a call with an unknown method has raised.
C7_Witness ==
    /\ ciargs.kind = "args"
    /\ ciargs.method = "bogus"
    /\ err.kind = "ValueError"

\* C8: when the root finder fails in the exact method, proportion_ci returns
\* no interval: a RuntimeError of the solver is raised as the
\* non-convergence RuntimeError (no cause), a ValueError as the
\* report-this ValueError with the solver's error as its cause.
C8_SolverFailureIsRaised ==
    (Len(solver) > 0 /\ solver[Len(solver)] # "root") =>
        /\ ci = NoCI
        /\ solver[Len(solver)] = "RuntimeError" =>
              /\ err.kind = "RuntimeError"
              /\ err.msg = "numerical solver failed to converge when computing the confidence limits"
              /\ err.cause = "None"
        /\ solver[Len(solver)] = "ValueError" =>
              /\ err.kind = "ValueError"
              /\ err.msg = "brentq raised a ValueError; report this to the SciPy developers"
              /\ err.cause = "brentq ValueError"

\* C8's case: the low bound was found and the solver then failed on the
\* high bound.
C8_Witness ==
    /\ Len(solver) = 2
    /\ solver[1] = "root"
    /\ solver[2] # "root"
    /\ calls = <<"findp:low", "findp:high">>

\* C9 as stated: the function binomtest hands to the search is
\* non-decreasing over the range it hands to it.
C9_SearchedRangeIsNonDecreasing ==
    search.kind \in {"asc", "desc"} =>
        NonDecreasing(search.a, search.lo, search.hi)

\* C10: every iteration of the loop returns or strictly shrinks hi - lo, and
\* the search returns.
C10_SearchTerminates ==
    /\ [][(~bs.s.done /\ bs.s.lo < bs.s.hi) =>
             (bs'.s.done \/ bs'.s.hi - bs'.s.lo < bs.s.hi - bs.s.lo)]_vars
    /\ <>(bs.s.done)

\* C10's case: a search on a function that is not non-decreasing has
\* returned after moving lo and hi.
C10_Witness ==
    /\ bs.kind = "search"
    /\ bs.s.done
    /\ ~NonDecreasing(bs.a, bs.lo, bs.hi)
    /\ bs.s.lo > bs.lo
    /\ bs.s.hi < bs.hi
====
